---- MODULE Spec2Model ----
(***************************************************************************)
(* The scan session of InventoryScanScreen: the records in scannedEPCs,    *)
(* the asynchronous handleScanResults invocation with its registry         *)
(* lookups, deletion of a row, and the confirmation popup.                 *)
(***************************************************************************)
EXTENDS Integers, Sequences, FiniteSets, TLC

VARIABLES
    scannedEPCs,       \* useState<ScannedEpcUI[]>: the records of the session, in order
    activeTab,         \* useState 'valid' | 'surplus' | 'error'
    isProcessing,      \* useState(false)
    swipedInvalidEpc,  \* useState<string | null>, "null" for null
    popupInfo,         \* useState {isVisible, type}
    screen,            \* top of the navigation stack: inventoryScan, radarScan, or left
    onScanComplete,    \* the scannedEPCs captured by the handleScanResults closure handed to radarScan
    call,              \* the handleScanResults invocation suspended at an await, or idle
    onConfirmCalls,    \* the calls made to the onConfirmScan prop, in order
    scans,             \* number of times Scan was pressed
    lastStarted,       \* history: the raw batch of the most recently started invocation
    presentAtStart,    \* history: the EPCs in the session when the running invocation started
    removedPhase,      \* history: none, during (a row deleted while the last started batch ran), after
    removedNF,         \* history: <<EPC, deleted while a batch ran>> of the deleted invalid_not_found
                       \* records whose EPC has not been recorded again
    readdedNF,         \* history: the pairs of removedNF whose EPC was recorded again
    repeated,          \* history: whether the last started batch repeats the batch before it:
                       \* no, clean (no row deleted since that batch started), during, after
    lookupFailed       \* history: a checkEpcInInventory call was rejected

vars == <<scannedEPCs, activeTab, isProcessing, swipedInvalidEpc, popupInfo, screen,
          onScanComplete, call, onConfirmCalls, scans, lastStarted, presentAtStart,
          removedPhase, removedNF, readdedNF, repeated, lookupFailed>>

\* Bound of the model: how many times Scan is pressed.
MaxScans == 3

\* The props of the screen: item.assetId, item.expectedEpcs, taskId.
assetId == "AS1"
expectedEpcs == <<"A", "B">>
taskId == "T1"


\* The EPCs handleScanResults injects into every batch.
SurplusMock == "EPC-E5-001"
WrongAssetMock == "EPC-A1-001"
UnknownMock == "UNKNOWN-EPC-123"

Range(s) == {s[i] : i \in DOMAIN s}

Min(a, b) == IF a < b THEN a ELSE b

\* The batches a radar scan reports: A is an expected EPC, X is not.
Batches == {<<>>, <<"A">>, <<"X">>, <<"A", "A">>, <<"A", "X">>, <<"X", "A">>}

\* scannedEPCs.map(s => s.epc) as a set
EpcsOf(recs) == {recs[i].epc : i \in DOMAIN recs}

\* The answers the registry can give for an EPC; the answer echoes the EPC.
\* assetId "none" stands for an answer without assetInfo.
checkEpcInInventory(epc) ==
    LET R(st, as) == [epc |-> epc, status |-> st, assetId |-> as]
    IN  CASE epc = "A" -> {R("valid", "AS1")}
          [] epc = "B" -> {R("valid", "AS1"), R("surplus", "AS1")}
          [] epc = "X" -> {R("valid", "none")}
          [] epc = SurplusMock -> {R("surplus", "AS2")}
          [] epc = WrongAssetMock -> {R("valid", "AS2")}
          [] OTHER -> {R("error_not_found", "none"), R("valid", "AS1")}

\* new Set(scannedEPCs.map(s => s.epc))
CurrentEpcs_Empty(recs) == {}

CurrentEpcs(recs) == EpcsOf(recs)

\* [...epcs, ...item.expectedEpcs.slice(0, 2), 'EPC-E5-001', 'EPC-A1-001', 'UNKNOWN-EPC-123']
mockNewEpcs(epcs) ==
    epcs \o SubSeq(expectedEpcs, 1, Min(2, Len(expectedEpcs)))
         \o <<SurplusMock, WrongAssetMock, UnknownMock>>

\* [...new Set(s)]: first occurrences, in order
RECURSIVE Dedupe(_)
Dedupe(s) ==
    IF s = <<>> THEN <<>>
    ELSE LET front == Dedupe(SubSeq(s, 1, Len(s) - 1))
             last == s[Len(s)]
         IN  IF last \in Range(front) THEN front ELSE Append(front, last)

uniqueEpcs(epcs) == Dedupe(mockNewEpcs(epcs))

\* the if / else-if chain that picks uiStatus
UiStatus_NoAssetCheck(result, currentAssetId) ==
    IF result.status = "error_not_found" THEN "invalid_not_found"
    ELSE IF result.status = "surplus" THEN "invalid_surplus"
    ELSE "valid"

UiStatus_AssetFirst(result, currentAssetId) ==
    IF result.status = "error_not_found" THEN "invalid_not_found"
    ELSE IF result.assetId # currentAssetId THEN "invalid_wrong_asset"
    ELSE IF result.status = "surplus" THEN "invalid_surplus"
    ELSE "valid"

UiStatus(result, currentAssetId) ==
    IF result.status = "error_not_found" THEN "invalid_not_found"
    ELSE IF result.status = "surplus" THEN "invalid_surplus"
    ELSE IF result.assetId # currentAssetId THEN "invalid_wrong_asset"
    ELSE "valid"

\* { epc, ...result, uiStatus }: the fields of result override epc
ScanRecord(epc, result) ==
    [epc |-> result.epc, status |-> result.status, assetId |-> result.assetId,
     uiStatus |-> UiStatus(result, assetId)]

validScans(recs) == SelectSeq(recs, LAMBDA s : s.uiStatus = "valid")

surplusScans_OnlySurplus(recs) == SelectSeq(recs, LAMBDA s : s.uiStatus = "invalid_surplus")

surplusScans(recs) ==
    SelectSeq(recs, LAMBDA s : s.uiStatus = "invalid_surplus" \/ s.uiStatus = "invalid_wrong_asset")

errorScans(recs) == SelectSeq(recs, LAMBDA s : s.uiStatus = "invalid_not_found")

\* if (currentEpcs.has(epc)) continue
IsDuplicate_Never(currentEpcs, epc) == FALSE

IsDuplicate(currentEpcs, epc) == epc \in currentEpcs

\* The index of the first EPC from position i on that is looked up (Len + 1 if none):
\* the loop runs without suspending over the EPCs it skips.
RECURSIVE NextLookup(_, _, _)
NextLookup(u, i, currentEpcs) ==
    IF i > Len(u) THEN i
    ELSE IF IsDuplicate(currentEpcs, u[i]) THEN NextLookup(u, i + 1, currentEpcs)
    ELSE i

Idle == [pc |-> "idle", uniqueEpcs |-> <<>>, i |-> 0, currentEpcs |-> {}, newScans |-> <<>>]

\* The component holds state while it is on the navigation stack; a state setter of
\* a component that has left the stack changes nothing.
Mounted == screen # "left"

\* Every EPC string a batch can hold.
AllEpcs == {"A", "B", "X", SurplusMock, WrongAssetMock, UnknownMock}

\* The type of a record of the session.
ScannedEpcUI ==
    [epc : AllEpcs, status : {"valid", "surplus", "error_not_found"},
     assetId : {"AS1", "AS2", "none"},
     uiStatus : {"valid", "invalid_duplicate", "invalid_wrong_asset", "invalid_surplus",
                 "invalid_not_found"}]

\* The types of the state of the component.
TypeOK ==
    /\ \A i \in DOMAIN scannedEPCs : scannedEPCs[i] \in ScannedEpcUI
    /\ activeTab \in {"valid", "surplus", "error"}
    /\ isProcessing \in BOOLEAN
    /\ swipedInvalidEpc \in AllEpcs \cup {"null"}
    /\ popupInfo \in {[isVisible |-> FALSE, type |-> "null"],
                      [isVisible |-> TRUE, type |-> "confirm_submit"]}
    /\ screen \in {"inventoryScan", "radarScan", "left"}
    /\ \A i \in DOMAIN onScanComplete : onScanComplete[i] \in ScannedEpcUI
    /\ call.pc \in {"idle", "await"}
    /\ \A i \in DOMAIN call.newScans : call.newScans[i] \in ScannedEpcUI
    /\ call.currentEpcs \subseteq AllEpcs
    /\ scans \in 0..MaxScans
    /\ lookupFailed \in BOOLEAN

Init ==
    /\ scannedEPCs = <<>>
    /\ activeTab = "valid"
    /\ isProcessing = FALSE
    /\ swipedInvalidEpc = "null"
    /\ popupInfo = [isVisible |-> FALSE, type |-> "null"]
    /\ screen = "inventoryScan"
    /\ onScanComplete = <<>>
    /\ call = Idle
    /\ onConfirmCalls = <<>>
    /\ scans = 0
    /\ lastStarted = <<>>
    /\ presentAtStart = {}
    /\ removedPhase = "none"
    /\ removedNF = {}
    /\ readdedNF = {}
    /\ repeated = "no"
    /\ lookupFailed = FALSE

\* prevScans => [...prevScans, ...newScans]
AppendScans_Prepend(prevScans, newScans) == newScans \o prevScans

AppendScans_StaleClosure(prevScans, newScans) == onScanComplete \o newScans

AppendScans(prevScans, newScans) == prevScans \o newScans

\* The end of handleScanResults: the functional update of scannedEPCs, the tab
\* switch and setIsProcessing(false).
Finish(newScans) ==
    LET hasError == \E k \in DOMAIN newScans : newScans[k].uiStatus = "invalid_not_found"
        hasSurplus == \E k \in DOMAIN newScans :
                         newScans[k].uiStatus \in {"invalid_surplus", "invalid_wrong_asset"}
    IN  /\ scannedEPCs' = IF Mounted /\ Len(newScans) > 0
                          THEN AppendScans(scannedEPCs, newScans) ELSE scannedEPCs
        /\ activeTab' = IF ~Mounted THEN activeTab
                        ELSE IF hasError THEN "error"
                        ELSE IF hasSurplus THEN "surplus"
                        ELSE activeTab
        /\ isProcessing' = IF Mounted THEN FALSE ELSE isProcessing
        /\ call' = Idle
        /\ presentAtStart' = {}
        /\ removedNF' = {p \in removedNF : p[1] \notin EpcsOf(scannedEPCs')}
        /\ readdedNF' = readdedNF \cup {p \in removedNF : p[1] \in EpcsOf(scannedEPCs')}

\* The loop of handleScanResults from position i on, up to the next await or the end;
\* present is the history of the EPCs in the session when the invocation started.
\* setIsProcessing(true) comes before the loop: the flag is up at every await.
Continue(u, i, currentEpcs, newScans, present) ==
    LET k == NextLookup(u, i, currentEpcs)
    IN  IF k <= Len(u)
        THEN /\ call' = [pc |-> "await", uniqueEpcs |-> u, i |-> k,
                         currentEpcs |-> currentEpcs, newScans |-> newScans]
             /\ isProcessing' = IF Mounted THEN TRUE ELSE isProcessing
             /\ presentAtStart' = present
             /\ UNCHANGED <<scannedEPCs, activeTab, removedNF, readdedNF>>
        ELSE Finish(newScans)

handleScan_NotDisabled ==
    /\ screen = "inventoryScan"
    /\ scans < MaxScans
    /\ screen' = "radarScan"
    /\ onScanComplete' = scannedEPCs
    /\ scans' = scans + 1
    /\ UNCHANGED <<scannedEPCs, activeTab, isProcessing, swipedInvalidEpc, popupInfo, call,
                   onConfirmCalls, lastStarted, presentAtStart, removedPhase, removedNF,
                   readdedNF, repeated, lookupFailed>>

\* The Scan button (disabled while isProcessing):
\* navigate('radarScan', { onScanComplete: handleScanResults }).
handleScan ==
    /\ screen = "inventoryScan"
    /\ ~isProcessing
    /\ scans < MaxScans
    /\ screen' = "radarScan"
    /\ onScanComplete' = scannedEPCs
    /\ scans' = scans + 1
    /\ UNCHANGED <<scannedEPCs, activeTab, isProcessing, swipedInvalidEpc, popupInfo, call,
                   onConfirmCalls, lastStarted, presentAtStart, removedPhase, removedNF,
                   readdedNF, repeated, lookupFailed>>

\* The radar screen is on top of the stack and reports its batch, once for each
\* time it was opened, as it returns to this screen.
RadarReports == screen = "radarScan"

handleScanResults_NoEmptyCheck(epcs) ==
    /\ RadarReports
    /\ screen' = "inventoryScan"
    /\ lastStarted' = epcs
    /\ removedPhase' = "none"
    /\ repeated' = IF scans < 2 \/ epcs # lastStarted THEN "no"
                   ELSE IF removedPhase = "none" THEN "clean" ELSE removedPhase
    /\ Continue(uniqueEpcs(epcs), 1, CurrentEpcs(onScanComplete), <<>>, EpcsOf(scannedEPCs))
    /\ UNCHANGED <<swipedInvalidEpc, popupInfo, onScanComplete, onConfirmCalls, scans,
                   lookupFailed>>

\* handleScanResults(epcs), called by the radar screen as it returns to this screen.
handleScanResults(epcs) ==
    /\ RadarReports
    /\ screen' = "inventoryScan"
    /\ lastStarted' = epcs
    /\ removedPhase' = "none"
    /\ repeated' = IF scans < 2 \/ epcs # lastStarted THEN "no"
                   ELSE IF removedPhase = "none" THEN "clean" ELSE removedPhase
    /\ IF Len(epcs) = 0
       THEN UNCHANGED <<scannedEPCs, activeTab, isProcessing, call, presentAtStart,
                        removedNF, readdedNF>>
       ELSE Continue(uniqueEpcs(epcs), 1, CurrentEpcs(onScanComplete), <<>>,
                     EpcsOf(scannedEPCs))
    /\ UNCHANGED <<swipedInvalidEpc, popupInfo, onScanComplete, onConfirmCalls, scans,
                   lookupFailed>>

\* await checkEpcInInventory(epc, taskId) resolves with result.
LookupResolves(result) ==
    /\ call.pc = "await"
    /\ result \in checkEpcInInventory(call.uniqueEpcs[call.i])
    /\ UNCHANGED <<swipedInvalidEpc, popupInfo, screen, onScanComplete, onConfirmCalls, scans,
                   lastStarted, removedPhase, repeated, lookupFailed>>
    /\ Continue(call.uniqueEpcs, call.i + 1,
                call.currentEpcs \cup {call.uniqueEpcs[call.i]},
                Append(call.newScans, ScanRecord(call.uniqueEpcs[call.i], result)),
                presentAtStart)

\* await checkEpcInInventory(epc, taskId) rejects: the await throws, nothing
\* catches it, and the invocation ends there with its promise rejected. Nothing
\* after the await runs: newScans is dropped and setIsProcessing(false) is not reached.
LookupRejects ==
    /\ call.pc = "await"
    /\ call' = Idle
    /\ presentAtStart' = {}
    /\ lookupFailed' = TRUE
    /\ UNCHANGED <<scannedEPCs, activeTab, isProcessing, swipedInvalidEpc, popupInfo, screen,
                   onScanComplete, onConfirmCalls, scans, lastStarted, removedPhase,
                   removedNF, readdedNF, repeated>>

\* The three tab buttons.
setActiveTab(tab) ==
    /\ screen = "inventoryScan"
    /\ activeTab # tab
    /\ activeTab' = tab
    /\ UNCHANGED <<scannedEPCs, isProcessing, swipedInvalidEpc, popupInfo, screen,
                   onScanComplete, call, onConfirmCalls, scans, lastStarted, presentAtStart,
                   removedPhase, removedNF, readdedNF, repeated, lookupFailed>>

\* onSwipe of a row of the error list (isInvalidList).
onSwipe(epc) ==
    /\ screen = "inventoryScan"
    /\ activeTab = "error"
    /\ epc \in EpcsOf(errorScans(scannedEPCs))
    /\ swipedInvalidEpc' = IF swipedInvalidEpc = epc THEN "null" ELSE epc
    /\ UNCHANGED <<scannedEPCs, activeTab, isProcessing, popupInfo, screen, onScanComplete,
                   call, onConfirmCalls, scans, lastStarted, presentAtStart, removedPhase,
                   removedNF, readdedNF, repeated, lookupFailed>>

\* prev.filter(s => s.epc !== epcToDelete)
FilterOut_Nothing(prev, epcToDelete) == prev

FilterOut(prev, epcToDelete) == SelectSeq(prev, LAMBDA s : s.epc # epcToDelete)

\* The rows EpcList renders, each with a Delete button bound to
\* handleDeleteInvalidScan(scan.epc): the valid list and the error list. The style
\* of the button (opacity, pointerEvents) keeps the pointer off it unless the row
\* is swiped; the button stays in the document and can be activated otherwise.
RowsWithDelete ==
    IF activeTab = "valid" THEN EpcsOf(validScans(scannedEPCs))
    ELSE IF activeTab = "error" THEN EpcsOf(errorScans(scannedEPCs))
    ELSE {}

\* handleDeleteInvalidScan(epcToDelete), from the Delete button of a row.
handleDeleteInvalidScan(epcToDelete) ==
    /\ screen = "inventoryScan"
    /\ epcToDelete \in RowsWithDelete
    /\ scannedEPCs' = FilterOut(scannedEPCs, epcToDelete)
    /\ swipedInvalidEpc' = "null"
    /\ removedPhase' = IF call.pc = "await" THEN "during" ELSE "after"
    /\ removedNF' = IF epcToDelete \in EpcsOf(errorScans(scannedEPCs))
                    THEN removedNF \cup {<<epcToDelete, call.pc = "await">>}
                    ELSE removedNF
    /\ UNCHANGED <<activeTab, isProcessing, popupInfo, screen, onScanComplete, call,
                   onConfirmCalls, scans, lastStarted, presentAtStart, readdedNF, repeated, lookupFailed>>

\* The Confirm button.
handleConfirm ==
    /\ screen = "inventoryScan"
    /\ ~popupInfo.isVisible
    /\ popupInfo' = [isVisible |-> TRUE, type |-> "confirm_submit"]
    /\ UNCHANGED <<scannedEPCs, activeTab, isProcessing, swipedInvalidEpc, screen,
                   onScanComplete, call, onConfirmCalls, scans, lastStarted, presentAtStart,
                   removedPhase, removedNF, readdedNF, repeated, lookupFailed>>

\* The popup's onClose.
closePopup ==
    /\ screen = "inventoryScan"
    /\ popupInfo.isVisible
    /\ popupInfo' = [isVisible |-> FALSE, type |-> "null"]
    /\ UNCHANGED <<scannedEPCs, activeTab, isProcessing, swipedInvalidEpc, screen,
                   onScanComplete, call, onConfirmCalls, scans, lastStarted, presentAtStart,
                   removedPhase, removedNF, readdedNF, repeated, lookupFailed>>

\* goBack(): the screen leaves the navigation stack and its session is discarded.
goBack == screen' = "left"

PopupOnConfirm_NoGoBack ==
    /\ screen = "inventoryScan"
    /\ popupInfo.isVisible
    /\ popupInfo.type = "confirm_submit"
    /\ onConfirmCalls' = Append(onConfirmCalls,
           [taskId |-> taskId, assetId |-> assetId, n |-> Len(validScans(scannedEPCs))])
    /\ UNCHANGED <<scannedEPCs, activeTab, isProcessing, swipedInvalidEpc, popupInfo, screen,
                   onScanComplete, call, scans, lastStarted, presentAtStart, removedPhase,
                   removedNF, readdedNF, repeated, lookupFailed>>

PopupOnConfirm_AllRecords ==
    /\ screen = "inventoryScan"
    /\ popupInfo.isVisible
    /\ popupInfo.type = "confirm_submit"
    /\ onConfirmCalls' = Append(onConfirmCalls,
           [taskId |-> taskId, assetId |-> assetId, n |-> Len(scannedEPCs)])
    /\ goBack
    /\ UNCHANGED <<scannedEPCs, activeTab, isProcessing, swipedInvalidEpc, popupInfo,
                   onScanComplete, call, scans, lastStarted, presentAtStart, removedPhase,
                   removedNF, readdedNF, repeated, lookupFailed>>

\* The popup's onConfirm: onConfirmScan(taskId, item.assetId, validScans.length); goBack().
PopupOnConfirm ==
    /\ screen = "inventoryScan"
    /\ popupInfo.isVisible
    /\ popupInfo.type = "confirm_submit"
    /\ onConfirmCalls' = Append(onConfirmCalls,
           [taskId |-> taskId, assetId |-> assetId, n |-> Len(validScans(scannedEPCs))])
    /\ goBack
    /\ UNCHANGED <<scannedEPCs, activeTab, isProcessing, swipedInvalidEpc, popupInfo,
                   onScanComplete, call, scans, lastStarted, presentAtStart, removedPhase,
                   removedNF, readdedNF, repeated, lookupFailed>>

Next ==
    \/ handleScan
    \/ \E epcs \in Batches : handleScanResults(epcs)
    \/ \E epc \in AllEpcs :
          \E result \in checkEpcInInventory(epc) : LookupResolves(result)
    \/ LookupRejects
    \/ \E tab \in {"valid", "surplus", "error"} : setActiveTab(tab)
    \/ \E epc \in EpcsOf(scannedEPCs) : onSwipe(epc)
    \/ \E epc \in EpcsOf(scannedEPCs) : handleDeleteInvalidScan(epc)
    \/ handleConfirm
    \/ closePopup
    \/ PopupOnConfirm

Spec == Init /\ [][Next]_vars

\* ---------------------------------------------------------------- steps

\* A handleScanResults invocation starts in this step.
BatchStarts == screen = "radarScan" /\ screen' = "inventoryScan"

\* A non-empty handleScanResults invocation runs to its end in this step.
BatchCompletes ==
    \/ call.pc = "await" /\ call'.pc = "idle" /\ lookupFailed' = lookupFailed
    \/ BatchStarts /\ call'.pc = "idle" /\ lastStarted' # <<>>

\* The EPCs in the session when the invocation that is running, or starting, began.
PresentBefore == IF call.pc = "await" THEN presentAtStart ELSE EpcsOf(scannedEPCs)

\* checkEpcInInventory is called in this step.
LookupIssued == call'.pc = "await" /\ call' # call

\* ---------------------------------------------------------------- claims

\* C1: in every reachable state no two records of scannedEPCs share the same EPC,
\* whatever batches were appended (a batch may repeat an EPC) and rows deleted.
C1_NoTwoRecordsShareEpc ==
    \A i, j \in DOMAIN scannedEPCs : i # j => scannedEPCs[i].epc # scannedEPCs[j].epc

\* C1 witness: the batch [A, A] was appended as a second batch and A is recorded.
C1_Witness ==
    /\ lastStarted = <<"A", "A">>
    /\ scans >= 2
    /\ call.pc = "idle"
    /\ screen = "inventoryScan"
    /\ \E i \in DOMAIN scannedEPCs : scannedEPCs[i].epc = "A"
    /\ Len(scannedEPCs) >= 5

\* C2: every record, recorded or collected by the running batch, has the status
\* the first matching rule gives: not found -> invalid_not_found; else surplus ->
\* invalid_surplus, whichever asset owns it; else another or no owning asset ->
\* invalid_wrong_asset; otherwise valid.
C2_StatusByPrecedence ==
    \A r \in Range(scannedEPCs) \cup Range(call.newScans) :
        /\ r.status = "error_not_found" => r.uiStatus = "invalid_not_found"
        /\ r.status = "surplus" => r.uiStatus = "invalid_surplus"
        /\ (r.status = "valid" /\ r.assetId # assetId) => r.uiStatus = "invalid_wrong_asset"
        /\ (r.status = "valid" /\ r.assetId = assetId) => r.uiStatus = "valid"

\* C2 witness: the session holds a record of each rule, among them a surplus EPC
\* owned by the current asset, one owned by another asset, and a found EPC
\* without assetInfo.
C2_Witness ==
    /\ \E r \in Range(scannedEPCs) : r.status = "error_not_found"
    /\ \E r \in Range(scannedEPCs) : r.status = "surplus" /\ r.assetId = assetId
    /\ \E r \in Range(scannedEPCs) : r.status = "surplus" /\ r.assetId # assetId
    /\ \E r \in Range(scannedEPCs) : r.status = "valid" /\ r.assetId = "none"
    /\ \E r \in Range(scannedEPCs) : r.status = "valid" /\ r.assetId = "AS2"
    /\ \E r \in Range(scannedEPCs) : r.status = "valid" /\ r.assetId = assetId

\* C3 (as claimed): a batch that scans again an EPC recorded in the session ends
\* with an invalid_duplicate record shown in the session.
C3_RescanSurfacedAsDuplicate ==
    [][(BatchCompletes /\ Mounted /\ Range(lastStarted') \cap PresentBefore # {})
          => \E r \in Range(scannedEPCs') : r.uiStatus = "invalid_duplicate"]_vars

\* C4 (as claimed): when a batch completes with no row deleted meanwhile, the
\* EPCs recorded are those recorded before plus the raw EPCs of the batch.
C4_OnlyBatchEpcsRecorded ==
    [][(BatchCompletes /\ Mounted /\ removedPhase' = "none")
          => EpcsOf(scannedEPCs') = PresentBefore \cup Range(lastStarted')]_vars

\* C5: the valid, surplus and error lists together hold every record once.
C5_BucketsPartitionRecords ==
    /\ Len(validScans(scannedEPCs)) + Len(surplusScans(scannedEPCs))
          + Len(errorScans(scannedEPCs)) = Len(scannedEPCs)
    /\ \A r \in Range(scannedEPCs) :
          r.uiStatus \in {"valid", "invalid_surplus", "invalid_wrong_asset", "invalid_not_found"}

\* C5 witness: all three lists are non-empty, the surplus list with both statuses.
C5_Witness ==
    /\ Len(validScans(scannedEPCs)) > 0
    /\ Len(errorScans(scannedEPCs)) > 0
    /\ \E r \in Range(scannedEPCs) : r.uiStatus = "invalid_surplus"
    /\ \E r \in Range(scannedEPCs) : r.uiStatus = "invalid_wrong_asset"

\* C6 (as claimed): no step makes the valid list shorter, a delete of a valid
\* row leaving the session as it is.
C6_ValidNeverShrinks ==
    [][Len(validScans(scannedEPCs')) >= Len(validScans(scannedEPCs))]_vars

\* C7: an EPC whose invalid_not_found record was deleted is in no record until it
\* is recorded again, and every batch started after the deletion that contains
\* the EPC ends with a record of it.
C7_RemovedIsScannedAfresh ==
    /\ [](\A p \in removedNF : p[1] \notin EpcsOf(scannedEPCs))
    /\ [][(BatchCompletes /\ Mounted)
            => \A p \in removedNF :
                 (p[1] \in Range(uniqueEpcs(lastStarted')) /\ p[1] \notin PresentBefore)
                     => /\ p[1] \in EpcsOf(scannedEPCs')
                        /\ p \in readdedNF']_vars

\* C7 witness: an invalid_not_found record was deleted while a batch was running
\* and a later batch recorded its EPC again.
C7_Witness ==
    /\ <<UnknownMock, TRUE>> \in readdedNF
    /\ UnknownMock \in EpcsOf(scannedEPCs)

\* C8 (as claimed): a batch equal to the batch completed just before it, with no
\* row deleted between the two, calls no lookup and leaves the records as they are.
C8_RepeatAddsNothing ==
    [][(BatchStarts /\ repeated' \in {"clean", "during"})
          => (~LookupIssued /\ scannedEPCs' = scannedEPCs)]_vars

\* C8 (amended): the same, when no row was deleted since the first of the two
\* batches started.
C8_RepeatAddsNothingUnlessRemoved ==
    [][(BatchStarts /\ repeated' = "clean")
          => (~LookupIssued /\ call'.pc = "idle" /\ scannedEPCs' = scannedEPCs)]_vars

\* C8 witness: a non-empty batch was appended again right after it completed.
C8_Witness ==
    /\ repeated = "clean"
    /\ lastStarted # <<>>
    /\ call.pc = "idle"
    /\ Len(scannedEPCs) >= 5

\* C9: onConfirmScan is called at most once, and once when the session ends by
\* confirmation; only by the confirm action of the popup that the Confirm button
\* opened, and with the number of valid records of the session at that moment;
\* the Confirm button itself calls nothing.
C9_ConfirmCalledOnceWithValidCount ==
    /\ [](Len(onConfirmCalls) <= 1)
    /\ [](screen = "left" => Len(onConfirmCalls) = 1)
    /\ [][onConfirmCalls' # onConfirmCalls
            => /\ popupInfo = [isVisible |-> TRUE, type |-> "confirm_submit"]
               /\ onConfirmCalls = <<>>
               /\ onConfirmCalls' = <<[taskId |-> taskId, assetId |-> assetId,
                                       n |-> Cardinality({i \in DOMAIN scannedEPCs :
                                                 scannedEPCs[i].uiStatus = "valid"})]>>]_vars
    /\ [][popupInfo' # popupInfo /\ popupInfo'.isVisible => onConfirmCalls' = onConfirmCalls]_vars

\* C9 witness: the callback was called with a count that is neither zero nor the
\* number of all records.
C9_Witness ==
    /\ Len(onConfirmCalls) = 1
    /\ onConfirmCalls[1].n > 0
    /\ onConfirmCalls[1].n < Len(scannedEPCs)

\* C10: once onConfirmScan has been called, no step changes the records or calls
\* it again: not a batch that was running at that moment, not a delete.
C10_ConfirmedIsReadOnly ==
    [][onConfirmCalls # <<>>
          => (scannedEPCs' = scannedEPCs /\ onConfirmCalls' = onConfirmCalls
              /\ screen' = "left")]_vars

\* C10 witness: a batch that was running when the user confirmed has run to its
\* end after the confirmation (the processing flag was never cleared).
C10_Witness ==
    /\ onConfirmCalls # <<>>
    /\ screen = "left"
    /\ call.pc = "idle"
    /\ isProcessing
    /\ ~lookupFailed

\* C11 (as claimed): when a lookup is rejected, the EPC it was for is recorded as
\* invalid_not_found by the running batch, which goes on.
C11_FailedLookupIsNotFound ==
    [][(call.pc = "await" /\ lookupFailed' # lookupFailed)
          => \E r \in Range(call'.newScans) \cup Range(scannedEPCs') :
                 r.epc = call.uniqueEpcs[call.i] /\ r.uiStatus = "invalid_not_found"]_vars

\* C12: a handleScanResults call with an empty batch changes no record, calls no
\* lookup, and leaves the processing flag and the active tab as they are.
C12_EmptyBatchChangesNothing ==
    [][(BatchStarts /\ lastStarted' = <<>>)
          => /\ scannedEPCs' = scannedEPCs
             /\ isProcessing' = isProcessing
             /\ activeTab' = activeTab
             /\ call' = call
             /\ ~LookupIssued]_vars

\* C12 witness: an empty batch was appended to a session that holds records,
\* while another tab than the one the last batch switched to is shown.
C12_Witness ==
    /\ lastStarted = <<>>
    /\ scans >= 2
    /\ screen = "inventoryScan"
    /\ Len(scannedEPCs) >= 5
    /\ activeTab = "valid"
    /\ ~isProcessing

\* C13: a handleScanResults invocation starts only when no other is suspended
\* at a lookup: the processing flag is down and no call is waiting.
C13_BatchesAreSerialized ==
    [][BatchStarts => (call.pc = "idle" /\ ~isProcessing)]_vars

\* C13 witness: a second batch is at a lookup, after the first has run to its end.
C13_Witness ==
    /\ scans >= 2
    /\ call.pc = "await"
    /\ isProcessing
    /\ Len(scannedEPCs) >= 5

\* The EPCs of the records, in order.
EpcSeq(recs) == [i \in DOMAIN recs |-> recs[i].epc]

\* C14: a batch that runs to its end leaves the records in the order they had
\* and puts after them one record for each EPC of the processed batch that was
\* not in the session when the batch started, in the order of first occurrence
\* in the batch.
C14_AppendedInArrivalOrder ==
    [][(BatchCompletes /\ Mounted)
          => EpcSeq(scannedEPCs') =
                EpcSeq(scannedEPCs)
                   \o SelectSeq(uniqueEpcs(lastStarted'), LAMBDA e : e \notin PresentBefore)]_vars

\* C14 witness: the batch [X, A] was appended to a session that held A: the
\* record of X is the first of those it added, after the five older records.
C14_Witness ==
    /\ lastStarted = <<"X", "A">>
    /\ scans = 2
    /\ call.pc = "idle"
    /\ ~lookupFailed
    /\ Len(scannedEPCs) = 6
    /\ scannedEPCs[1].epc = "A"
    /\ scannedEPCs[6].epc = "X"

\* C15 (as claimed): a batch that has ended has cleared the processing flag:
\* with no invocation waiting at a lookup, the flag of the mounted screen is down.
C15_FlagClearedWhenBatchEnds ==
    (Mounted /\ call.pc = "idle") => ~isProcessing

\* C16: when a batch runs to its end, the records of the session at that moment
\* are all kept, in place, and none of the records it adds has an EPC that was in
\* the session when the batch started: a record deleted meanwhile stays deleted.
C16_RemovalDuringBatchIsKept ==
    [][(BatchCompletes /\ Mounted)
          => /\ Len(scannedEPCs') >= Len(scannedEPCs)
             /\ SubSeq(scannedEPCs', 1, Len(scannedEPCs)) = scannedEPCs
             /\ \A i \in (Len(scannedEPCs) + 1)..Len(scannedEPCs') :
                    scannedEPCs'[i].epc \notin PresentBefore]_vars

\* C16 witness: a row was deleted while a batch was at a lookup, and the batch
\* has run to its end and added records.
C16_Witness ==
    /\ removedPhase = "during"
    /\ call.pc = "idle"
    /\ ~lookupFailed
    /\ screen = "inventoryScan"
    /\ ~isProcessing
    /\ \E i \in DOMAIN scannedEPCs : scannedEPCs[i].epc = "X"
    /\ lastStarted = <<"X">>

\* C17: every record of the valid list has a registry answer that is found, not
\* surplus, and owned by the asset being counted; the count handed to
\* onConfirmScan is the number of such records.
C17_ValidMeansRegisteredToAsset ==
    /\ \A r \in Range(validScans(scannedEPCs)) :
          r.status = "valid" /\ r.assetId = assetId
    /\ \A k \in DOMAIN onConfirmCalls :
          onConfirmCalls[k].n =
             Cardinality({i \in DOMAIN scannedEPCs :
                            scannedEPCs[i].status = "valid" /\ scannedEPCs[i].assetId = assetId})

\* C17 witness: the session was confirmed with a valid record, while it also held
\* found EPCs of another asset and of no asset, and a surplus EPC of this asset.
C17_Witness ==
    /\ Len(onConfirmCalls) = 1
    /\ onConfirmCalls[1].n > 0
    /\ \E r \in Range(scannedEPCs) : r.status = "valid" /\ r.assetId = "AS2"
    /\ \E r \in Range(scannedEPCs) : r.status = "valid" /\ r.assetId = "none"
    /\ \E r \in Range(scannedEPCs) : r.status = "surplus" /\ r.assetId = assetId

====
